---- MODULE Spec2Model ----
(***************************************************************************)
(* Model of src/main.py: the POST /transcribe pipeline (download the audio *)
(* of a video with yt-dlp into a temporary directory, submit the file to   *)
(* the remote speech-to-text service, return the trimmed text).            *)
(*                                                                         *)
(* Strings are sequences of one-character strings, so that strip(), len()  *)
(* and slicing are computed and not assumed.                               *)
(***************************************************************************)
EXTENDS Integers, Sequences, FiniteSets, TLC

(***************************************************************************)
(* Bounds of the model.                                                    *)
(***************************************************************************)
\* request slots of the server
NumReq == 2
\* names mkdtemp can draw from
NumTmp == 2
\* longest run of whitespace put around a URL or a provider text
MaxPad == 1
\* how far a provider text or a captured stream goes past its threshold
MaxOver == 1

(***************************************************************************)
(* Program constants.                                                      *)
(***************************************************************************)
\* subprocess tail kept in the 502 detail: [-1500:]
TailLen == 1500
\* os.path.getsize(audio_path) < 1024
MinAudioBytes == 1024
\* len(text) < 10
MinTranscriptLen == 10

Reqs == 1..NumReq
TmpNames == 1..NumTmp

(***************************************************************************)
(* Strings.                                                                *)
(***************************************************************************)
\* the characters str.strip() removes (those the model's inputs contain)
Whitespace == {" ", "\t", "\n", "\r"}

RECURSIVE LStrip(_)
\* str.lstrip(): drop leading whitespace
LStrip(s) ==
    IF s = <<>> THEN <<>>
    ELSE IF Head(s) \in Whitespace THEN LStrip(Tail(s)) ELSE s

RECURSIVE RStrip(_)
\* str.rstrip(): drop trailing whitespace
RStrip(s) ==
    IF s = <<>> THEN <<>>
    ELSE IF s[Len(s)] \in Whitespace THEN RStrip(SubSeq(s, 1, Len(s) - 1)) ELSE s

\* a strip that forgets the trailing side
StripLeftOnly(s) == LStrip(s)

\* str.strip()
Strip(s) == RStrip(LStrip(s))

\* s[:n]: the first n characters, or all of s when it is shorter
FirstChars(s, n) == IF Len(s) <= n THEN s ELSE SubSeq(s, 1, n)

\* s[-n:] for n > 0: the last n characters, or all of s when it is shorter
LastChars(s, n) ==
    IF Len(s) <= n THEN s ELSE SubSeq(s, Len(s) - n + 1, Len(s))

\* a run of k whitespace characters
Pad(k) == [i \in 1..k |-> IF i % 2 = 1 THEN " " ELSE "\n"]

\* n characters drawn cyclically from the alphabet abc
Chars(abc, n) == [i \in 1..n |-> abc[(i % Len(abc)) + 1]]

(***************************************************************************)
(* Python values.                                                          *)
(***************************************************************************)
\* an optional string: None, or a str
None == [some |-> FALSE, val |-> <<>>]
Some(s) == [some |-> TRUE, val |-> s]

\* Python truthiness of an optional string: None and "" are falsy
Truthy(o) == o.some /\ o.val # <<>>

\* (o or ""): the string, "" when it is None or empty
OrEmpty(o) == IF Truthy(o) THEN o.val ELSE <<>>

(***************************************************************************)
(* Inputs of the model.                                                    *)
(***************************************************************************)
\* the values OPENAI_API_KEY takes in the environment: unset, empty, set
ApiKeys == {None, Some(<<>>), Some(<<"s", "k">>)}

\* source URLs: blank, whitespace-only, and a URL with whitespace around it
Urls == {Pad(l) \o core \o Pad(t) : l \in 0..MaxPad, t \in 0..MaxPad, core \in {<<>>, <<"u">>}}

\* JSON bodies of POST /transcribe: the URL under the field videoUrl, the URL
\* under the field url alone, or neither field
Bodies ==
    {[videoUrl |-> Some(u), url |-> None] : u \in Urls}
        \cup {[videoUrl |-> None, url |-> Some(u)] : u \in {<<"u">>}}
        \cup {[videoUrl |-> None, url |-> None]}

\* file names in a scratch directory
AudioPrefix == <<"a", "u", "d", "i", "o", ".">>
NameM4a == AudioPrefix \o <<"m", "4", "a">>
NameWebm == AudioPrefix \o <<"w", "e", "b", "m">>
NameBare == <<"a", "u", "d", "i", "o">>
Names == {NameM4a, NameWebm, NameBare}

Absent == [kind |-> "absent", size |-> 0]
RegularFile(n) == [kind |-> "file", size |-> n]
\* a directory entry that is itself a directory
SubDir == [kind |-> "dir", size |-> 4096]

EmptyListing == [n \in Names |-> Absent]
NoDir == [exists |-> FALSE, files |-> EmptyListing]
EmptyDir == [exists |-> TRUE, files |-> EmptyListing]

NoPath == [dir |-> 0, name |-> <<>>]
\* os.path.join(workdir, name)
Join(dir, name) == [dir |-> dir, name |-> name]
\* os.path.basename(path)
Basename(path) == path.name

\* regular-file sizes in bytes: below, at and above the minimum
Sizes == {512, MinAudioBytes - 1, MinAudioBytes}

\* what yt-dlp can leave in its output directory: under each name nothing, a
\* directory or a regular file; the name without extension, when present, is
\* the largest file of all
Listings ==
    {l \in [Names -> {Absent, SubDir} \cup {RegularFile(n) : n \in Sizes \cup {99999}}] :
        /\ l[NameBare] \in {Absent, RegularFile(99999)}
        /\ \A n \in Names : l[n].size = 99999 => n = NameBare}

\* captured streams: n characters of the error stream, of standard output
Err(n) == Chars(<<"e", "r", "x">>, n)
Out(n) == Chars(<<"o", "u", "t">>, n)
StreamLens == {0, 1, TailLen} \cup {TailLen + k : k \in 1..MaxOver}

\* how the child process can end: exit status and captured streams (an error
\* stream of each length, and standard output alone, empty or long)
ProcResults ==
    {[rc |-> 0, stdout |-> Out(1), stderr |-> <<>>]}
        \cup {[rc |-> 1, stdout |-> Out(1), stderr |-> Err(n)] : n \in StreamLens \ {0}}
        \cup {[rc |-> 1, stdout |-> Out(n), stderr |-> <<>>] : n \in {0, TailLen + MaxOver}}

\* a text of n characters with a space inside (n >= 3), or without
Words(n, spaced) == [i \in 1..n |-> IF spaced /\ i = 2 /\ n >= 3 THEN " " ELSE "w"]
TextLens == {0, 1, MinTranscriptLen - 1, MinTranscriptLen} \cup
            {MinTranscriptLen + k : k \in 1..MaxOver}

\* provider responses: no text attribute, text None, or a text
Responses ==
    {[has_text |-> FALSE, text |-> None], [has_text |-> TRUE, text |-> None]}
        \cup {[has_text |-> TRUE, text |-> Some(Pad(l) \o Words(n, sp) \o Pad(t))] :
                l \in 0..MaxPad, t \in 0..MaxPad, n \in TextLens, sp \in BOOLEAN}

\* str(e) of the exceptions the remote call raises
CallErrors == {<<"4", "0", "1">>, <<>>}
\* str(e) of the OSError open() raises
OpenErrors == {<<"E", "M", "F", "I", "L", "E">>}

\* the response of an HTTPException(status_code, detail); arg is the variable
\* part of the detail string
HTTPException(status, detail, arg) ==
    [status |-> status, detail |-> detail, arg |-> arg, transcript |-> <<>>]

\* the response of return {"transcript": text}
Success(text) == [status |-> 200, detail |-> "", arg |-> <<>>, transcript |-> text]

NoOutcome == [status |-> 0, detail |-> "", arg |-> <<>>, transcript |-> <<>>]

NoProc == [state |-> "none", url |-> <<>>, outdir |-> 0, rc |-> 0,
           stdout |-> <<>>, stderr |-> <<>>]
NoCall == [state |-> "none", file |-> NoPath, bytes |-> 0, key |-> None, model |-> "",
           error |-> <<>>]
NoResp == [has_text |-> FALSE, text |-> None]

VARIABLES
    health,      \* the response of the GET /health being answered, if any
    apiKey,      \* os.environ["OPENAI_API_KEY"]
    fs,          \* the temporary directories: name -> existence and listing
    missed,      \* some request has been answered 500 (the key was not set)
    sent,        \* the field names the request's JSON body carried
    pc,          \* stage of each request
    req,         \* the bound request model (Req)
    api_key,     \* local api_key of transcribe
    video_url,   \* local video_url of transcribe
    td,          \* local td: the TemporaryDirectory of the request (0: none)
    proc,        \* the yt-dlp child process of the request
    candidates,  \* local candidates of run_yt_dlp
    audio_path,  \* local audio_path
    call,        \* the remote transcription call of the request
    resp,        \* local resp
    outcome,     \* the response of the request
    spawns,      \* number of child processes the request has spawned
    calls        \* number of remote calls the request has made

globals == <<health, apiKey, fs, missed>>
fetchv == <<proc, candidates, audio_path, spawns>>
transv == <<call, resp, calls>>
vars == <<health, apiKey, fs, missed, sent, pc, req, api_key, video_url, td, proc,
          candidates, audio_path, call, resp, outcome, spawns, calls>>

NoReq == [videoUrl |-> None]
NoFields == [videoUrl |-> FALSE, url |-> FALSE]

\* no GET /health is being answered
NoHealth == [answered |-> FALSE, ok |-> FALSE]

Init ==
    /\ health = NoHealth
    /\ apiKey \in ApiKeys
    /\ fs = [n \in TmpNames |-> NoDir]
    /\ missed = FALSE
    /\ sent = [r \in Reqs |-> NoFields]
    /\ pc = [r \in Reqs |-> "Idle"]
    /\ req = [r \in Reqs |-> NoReq]
    /\ api_key = [r \in Reqs |-> None]
    /\ video_url = [r \in Reqs |-> <<>>]
    /\ td = [r \in Reqs |-> 0]
    /\ proc = [r \in Reqs |-> NoProc]
    /\ candidates = [r \in Reqs |-> <<>>]
    /\ audio_path = [r \in Reqs |-> NoPath]
    /\ call = [r \in Reqs |-> NoCall]
    /\ resp = [r \in Reqs |-> NoResp]
    /\ outcome = [r \in Reqs |-> NoOutcome]
    /\ spawns = [r \in Reqs |-> 0]
    /\ calls = [r \in Reqs |-> 0]

(***************************************************************************)
(* GET /health, lines 16-18.                                               *)
(***************************************************************************)
\* a health check that reports whether the credential is configured
HealthIfKey(key) == [answered |-> TRUE, ok |-> Truthy(key)]

\* line 18: return {"ok": True}; the environment is not read
HealthPayload(key) == [answered |-> TRUE, ok |-> TRUE]

\* GET /health arrives and is answered
Health ==
    /\ ~health.answered
    /\ health' = HealthPayload(apiKey)
    /\ UNCHANGED <<apiKey, fs, missed, sent, pc, req, api_key, video_url, td, outcome>>
    /\ UNCHANGED <<fetchv, transv>>

\* the answer has been delivered
HealthDelivered ==
    /\ health.answered
    /\ health' = NoHealth
    /\ UNCHANGED <<apiKey, fs, missed, sent, pc, req, api_key, video_url, td, outcome>>
    /\ UNCHANGED <<fetchv, transv>>

(***************************************************************************)
(* The environment variable changes (an operator fixing the deployment).   *)
(***************************************************************************)
SetEnv(v) ==
    /\ v # apiKey
    /\ apiKey' = v
    /\ UNCHANGED <<health, fs, missed, sent, pc, req, api_key, video_url, td, outcome>>
    /\ UNCHANGED <<fetchv, transv>>

(***************************************************************************)
(* Request binding: FastAPI builds Req from the JSON body before it calls  *)
(* the handler. Req declares the one required field videoUrl: str; a body  *)
(* without it is answered 422 and the handler does not run. Other fields   *)
(* of the body are ignored.                                                *)
(***************************************************************************)
\* a binding that also reads the field url when videoUrl is missing
BindAlias(b) == IF b.videoUrl.some THEN b.videoUrl ELSE b.url

\* the value bound to Req.videoUrl; None when the body cannot be bound
Bind(b) == b.videoUrl

Post(r, b) ==
    /\ pc[r] = "Idle"
    /\ sent' = [sent EXCEPT ![r] = [videoUrl |-> b.videoUrl.some, url |-> b.url.some]]
    /\ IF Bind(b).some
       THEN /\ pc' = [pc EXCEPT ![r] = "Validating"]
            /\ req' = [req EXCEPT ![r] = [videoUrl |-> Bind(b)]]
            /\ UNCHANGED outcome
       \* the handler is not called: the request never enters the pipeline
       ELSE /\ pc' = [pc EXCEPT ![r] = "Rejected"]
            /\ outcome' = [outcome EXCEPT ![r] = HTTPException(422, "field required", <<>>)]
            /\ UNCHANGED req
    /\ UNCHANGED <<globals, api_key, video_url, td>>
    /\ UNCHANGED <<fetchv, transv>>

(***************************************************************************)
(* TemporaryDirectory.                                                     *)
(***************************************************************************)
\* a removal that succeeds on an empty directory only (os.rmdir)
RmDir(d) == IF d.files = EmptyListing THEN NoDir ELSE d

\* TemporaryDirectory.__exit__: the directory and all it holds are removed
RmTree(d) == NoDir

\* the response is built and the handler goes on (the raise is missing)
LeaveNoRaise(r, stage, o) ==
    /\ UNCHANGED pc
    /\ outcome' = [outcome EXCEPT ![r] = o]
    /\ fs' = [fs EXCEPT ![td[r]] = RmTree(fs[td[r]])]

\* a directory made with mkdtemp and left behind
LeaveKeepDir(r, stage, o) ==
    /\ pc' = [pc EXCEPT ![r] = stage]
    /\ outcome' = [outcome EXCEPT ![r] = o]
    /\ UNCHANGED fs

\* leaving the with block of transcribe with the response o
Leave(r, stage, o) ==
    /\ pc' = [pc EXCEPT ![r] = stage]
    /\ outcome' = [outcome EXCEPT ![r] = o]
    /\ fs' = [fs EXCEPT ![td[r]] = RmTree(fs[td[r]])]

(***************************************************************************)
(* transcribe, lines 80-91: credential, URL, client, temporary directory.  *)
(***************************************************************************)
\* the checks with the URL looked at first
CheckUrlFirst(key, url) ==
    IF Strip(OrEmpty(url)) = <<>> THEN HTTPException(400, "videoUrl is required", <<>>)
    ELSE IF ~Truthy(key) THEN HTTPException(500, "OPENAI_API_KEY is not set", <<>>)
    ELSE NoOutcome

\* the URL check alone
CheckUrlOnly(key, url) ==
    IF Strip(OrEmpty(url)) = <<>> THEN HTTPException(400, "videoUrl is required", <<>>)
    ELSE NoOutcome

\* the two checks before any work: NoOutcome when both pass
Check(key, url) ==
    IF ~Truthy(key) THEN HTTPException(500, "OPENAI_API_KEY is not set", <<>>)
    ELSE IF Strip(OrEmpty(url)) = <<>> THEN HTTPException(400, "videoUrl is required", <<>>)
    ELSE NoOutcome

\* one working directory for every request
SharedName(n) == n = 1

\* mkdtemp: a name no directory has and no request holds
FreshName(n) == ~fs[n].exists /\ \A q \in Reqs : td[q] # n

Validate(r) ==
    /\ pc[r] = "Validating"
    /\ api_key' = [api_key EXCEPT ![r] = apiKey]
    /\ IF Check(apiKey, req[r].videoUrl) # NoOutcome
       THEN /\ pc' = [pc EXCEPT ![r] = "Failed"]
            /\ outcome' = [outcome EXCEPT ![r] = Check(apiKey, req[r].videoUrl)]
            /\ UNCHANGED <<fs, td, video_url, req>>
       ELSE /\ video_url' = [video_url EXCEPT ![r] = Strip(OrEmpty(req[r].videoUrl))]
            \* req is not read again
            /\ req' = [req EXCEPT ![r] = NoReq]
            /\ \E n \in TmpNames :
                /\ FreshName(n)
                /\ fs' = [fs EXCEPT ![n] = EmptyDir]
                /\ td' = [td EXCEPT ![r] = n]
            /\ pc' = [pc EXCEPT ![r] = "Fetching"]
            /\ UNCHANGED outcome
    /\ UNCHANGED <<health, apiKey, missed, sent>>
    /\ UNCHANGED <<fetchv, transv>>

(***************************************************************************)
(* run_yt_dlp.                                                             *)
(***************************************************************************)
\* a download that is started again after the child failed
SpawnRetrying(r) ==
    /\ pc[r] = "Fetching"
    /\ proc[r].state = "none" \/ (proc[r].state = "exited" /\ proc[r].rc # 0)
    /\ proc' = [proc EXCEPT ![r] = [NoProc EXCEPT !.state = "running",
                                                  !.url = video_url[r],
                                                  !.outdir = td[r]]]
    /\ spawns' = [spawns EXCEPT ![r] = @ + 1]
    /\ UNCHANGED <<globals, sent, pc, req, api_key, video_url, td, outcome>>
    /\ UNCHANGED <<candidates, audio_path, transv>>

\* lines 27-48: the command is built and the child process started
Spawn(r) ==
    /\ pc[r] = "Fetching"
    /\ proc[r].state = "none"
    /\ proc' = [proc EXCEPT ![r] = [NoProc EXCEPT !.state = "running",
                                                  !.url = video_url[r],
                                                  !.outdir = td[r]]]
    /\ spawns' = [spawns EXCEPT ![r] = @ + 1]
    /\ UNCHANGED <<globals, sent, pc, req, api_key, video_url, td, outcome>>
    /\ UNCHANGED <<candidates, audio_path, transv>>

\* the child process writes under its output template
DownloaderWrites(r, l) ==
    /\ proc[r].state = "running"
    /\ l # EmptyListing
    /\ fs[proc[r].outdir].exists
    /\ fs[proc[r].outdir].files = EmptyListing
    /\ fs' = [fs EXCEPT ![proc[r].outdir].files = l]
    /\ UNCHANGED <<health, apiKey, missed, sent, pc, req, api_key, video_url, td, outcome>>
    /\ UNCHANGED <<fetchv, transv>>

\* the child process ends within the timeout
DownloaderExits(r, res) ==
    /\ proc[r].state = "running"
    /\ proc' = [proc EXCEPT ![r] = [@ EXCEPT !.state = "exited", !.rc = res.rc,
                                             !.stdout = res.stdout,
                                             !.stderr = res.stderr]]
    /\ UNCHANGED <<globals, sent, pc, req, api_key, video_url, td, outcome>>
    /\ UNCHANGED <<candidates, audio_path, spawns, transv>>

\* a timeout answered 502 like the other download failures
TimedOut502 == HTTPException(502, "yt-dlp timed out", <<>>)

\* line 50
TimedOut == HTTPException(504, "yt-dlp timed out", <<>>)

\* subprocess.run without timeout=: the handler waits for as long as it takes
DownloadNoTimeout(r) == FALSE /\ UNCHANGED vars

\* lines 48-50: the timeout expires; subprocess.run kills the child and raises
DownloadTimeout(r) ==
    /\ pc[r] = "Fetching"
    /\ proc[r].state = "running"
    /\ proc' = [proc EXCEPT ![r].state = "killed"]
    /\ Leave(r, "Failed", TimedOut)
    /\ UNCHANGED <<health, apiKey, missed, sent, req, api_key, video_url, td>>
    /\ UNCHANGED <<candidates, audio_path, spawns, transv>>

\* the orders in which the directory can be listed
Orders == {o \in [1..Cardinality(Names) -> Names] : \A n \in Names : \E i \in DOMAIN o : o[i] = n}

\* a pattern that matches the base name with or without an extension
MatchesBase(name) ==
    Len(name) >= Len(NameBare) /\ SubSeq(name, 1, Len(NameBare)) = NameBare

\* fnmatch(name, "audio.*")
Matches(name) ==
    Len(name) >= Len(AudioPrefix) /\ SubSeq(name, 1, Len(AudioPrefix)) = AudioPrefix

\* glob.glob(os.path.join(workdir, "audio.*")), the directory listed in order
Glob(workdir, order) ==
    LET hit(n) == fs[workdir].exists /\ fs[workdir].files[n].kind # "absent" /\ Matches(n)
        names == SelectSeq(order, hit)
    IN  [i \in DOMAIN names |-> Join(workdir, names[i])]

\* an existence test in place of the regular-file test (os.path.exists)
Exists(path) == fs[path.dir].exists /\ fs[path.dir].files[path.name].kind # "absent"

\* os.path.isfile(path)
IsFile(path) == fs[path.dir].exists /\ fs[path.dir].files[path.name].kind = "file"

\* os.path.getsize(path)
GetSize(path) == fs[path.dir].files[path.name].size

\* line 59: the candidates that are regular files, order kept
RegularOnly(paths) == SelectSeq(paths, IsFile)

RECURSIVE InsertBySize(_, _)
\* x put into the list sorted largest first, after the elements not smaller
InsertBySize(x, sorted) ==
    IF sorted = <<>> THEN <<x>>
    ELSE IF GetSize(Head(sorted)) >= GetSize(x)
         THEN <<Head(sorted)>> \o InsertBySize(x, Tail(sorted))
         ELSE <<x>> \o sorted

RECURSIVE SortSmallestFirst(_)
\* the sort without reverse=True
SortSmallestFirst(paths) ==
    IF paths = <<>> THEN <<>>
    ELSE LET rest == SortSmallestFirst(Tail(paths))
             before == SelectSeq(rest, LAMBDA q : GetSize(q) < GetSize(Head(paths)))
             after == SelectSeq(rest, LAMBDA q : GetSize(q) >= GetSize(Head(paths)))
         IN  before \o <<Head(paths)>> \o after

RECURSIVE SortLargestFirst(_)
\* line 65: candidates.sort(key=getsize, reverse=True), a stable sort
SortLargestFirst(paths) ==
    IF paths = <<>> THEN <<>>
    ELSE InsertBySize(paths[Len(paths)], SortLargestFirst(SubSeq(paths, 1, Len(paths) - 1)))

\* the head of the stream in place of its tail
ToolFailedHead(p) ==
    HTTPException(502, "yt-dlp failed:\n",
                  FirstChars(OrEmpty(IF Truthy(Some(p.stderr)) THEN Some(p.stderr)
                                     ELSE Some(p.stdout)),
                             TailLen))

\* lines 54-55: (p.stderr or p.stdout or "")[-1500:]
ToolFailed(p) ==
    HTTPException(502, "yt-dlp failed:\n",
                  LastChars(OrEmpty(IF Truthy(Some(p.stderr)) THEN Some(p.stderr)
                                    ELSE Some(p.stdout)),
                            TailLen))

\* line 62
NoAudio ==
    HTTPException(502, "yt-dlp reported success but no audio file was created", <<>>)

\* a size test that lets a file of any size through
TooSmallNever(path) == FALSE

\* line 69
TooSmall(path) == GetSize(path) < MinAudioBytes

\* lines 70-73
TooSmallFile(path) ==
    HTTPException(502, "yt-dlp produced an empty/too-small file: ", Basename(path))

\* lines 48-75: subprocess.run returns; the exit status is looked at, then the
\* output directory
ResolveOutput(r, order) ==
    /\ pc[r] = "Fetching"
    /\ proc[r].state = "exited"
    /\ IF proc[r].rc # 0
       THEN /\ Leave(r, "Failed", ToolFailed(proc[r]))
            /\ UNCHANGED <<candidates, audio_path>>
       ELSE LET found == RegularOnly(Glob(td[r], order))
                sorted == SortLargestFirst(found)
            IN  IF found = <<>>
                THEN /\ Leave(r, "Failed", NoAudio)
                     /\ candidates' = [candidates EXCEPT ![r] = found]
                     /\ UNCHANGED audio_path
                ELSE /\ candidates' = [candidates EXCEPT ![r] = sorted]
                     /\ audio_path' = [audio_path EXCEPT ![r] = sorted[1]]
                     /\ IF TooSmall(sorted[1])
                        THEN Leave(r, "Failed", TooSmallFile(sorted[1]))
                        ELSE /\ pc' = [pc EXCEPT ![r] = "Transcribing"]
                             /\ UNCHANGED <<fs, outcome>>
    /\ UNCHANGED <<health, apiKey, missed, sent, req, api_key, video_url, td>>
    /\ UNCHANGED <<proc, spawns, transv>>

(***************************************************************************)
(* transcribe, lines 94-107: the remote call and the transcript.           *)
(***************************************************************************)
\* the exception left to the framework, which answers 500
Reraised(e) == HTTPException(500, "Internal Server Error", <<>>)

\* line 101: str(e) in the detail
ProviderFailed(e) == HTTPException(502, "OpenAI Whisper failed: ", e)

\* line 95 raises: open() fails, no remote call is made
OpenFails(r, e) ==
    /\ pc[r] = "Transcribing"
    /\ call[r].state = "none"
    /\ call' = [call EXCEPT ![r] = [@ EXCEPT !.state = "raised", !.error = e]]
    /\ Leave(r, "Failed", ProviderFailed(e))
    /\ UNCHANGED <<health, apiKey, missed, sent, req, api_key, video_url, td>>
    /\ UNCHANGED <<fetchv, resp, calls>>

\* lines 95-99: the file is opened and sent with the model name
OpenAndSubmit(r) ==
    /\ pc[r] = "Transcribing"
    /\ call[r].state = "none"
    /\ IsFile(audio_path[r])
    /\ call' = [call EXCEPT ![r] = [NoCall EXCEPT !.state = "inflight",
                                                  !.file = audio_path[r],
                                                  !.bytes = GetSize(audio_path[r]),
                                                  !.key = api_key[r],
                                                  !.model = "whisper-1"]]
    /\ calls' = [calls EXCEPT ![r] = @ + 1]
    /\ UNCHANGED <<globals, sent, pc, req, api_key, video_url, td, outcome>>
    /\ UNCHANGED <<fetchv, resp>>

\* lines 100-101: the remote call raises
ProviderRaises(r, e) ==
    /\ pc[r] = "Transcribing"
    /\ call[r].state = "inflight"
    /\ call' = [call EXCEPT ![r] = [@ EXCEPT !.state = "raised", !.error = e]]
    /\ Leave(r, "Failed", ProviderFailed(e))
    /\ UNCHANGED <<health, apiKey, missed, sent, req, api_key, video_url, td>>
    /\ UNCHANGED <<fetchv, resp, calls>>

\* line 103: (getattr(resp, "text", None) or "").strip()
Text(rsp) == Strip(OrEmpty(IF rsp.has_text THEN rsp.text ELSE None))

\* a length test that lets a text of MinTranscriptLen - 1 characters through
TooShortOffByOne(text) == Len(text) < MinTranscriptLen - 1

\* line 104
TooShort(text) == Len(text) < MinTranscriptLen

\* line 105
EmptyTranscript == HTTPException(502, "empty transcript", <<>>)

\* lines 96-107: the remote call returns
ProviderReturns(r, rsp) ==
    /\ pc[r] = "Transcribing"
    /\ call[r].state = "inflight"
    /\ call' = [call EXCEPT ![r].state = "returned"]
    /\ resp' = [resp EXCEPT ![r] = rsp]
    /\ IF TooShort(Text(rsp))
       THEN Leave(r, "Failed", EmptyTranscript)
       ELSE Leave(r, "Done", Success(Text(rsp)))
    /\ UNCHANGED <<health, apiKey, missed, sent, req, api_key, video_url, td>>
    /\ UNCHANGED <<fetchv, calls>>

(***************************************************************************)
(* The response is delivered and the handler's frame is gone.              *)
(***************************************************************************)
Respond(r) ==
    /\ pc[r] \in {"Done", "Failed", "Rejected"}
    /\ missed' = (missed \/ outcome[r].status = 500)
    /\ pc' = [pc EXCEPT ![r] = "Idle"]
    /\ sent' = [sent EXCEPT ![r] = NoFields]
    /\ req' = [req EXCEPT ![r] = NoReq]
    /\ api_key' = [api_key EXCEPT ![r] = None]
    /\ video_url' = [video_url EXCEPT ![r] = <<>>]
    /\ td' = [td EXCEPT ![r] = 0]
    /\ proc' = [proc EXCEPT ![r] = NoProc]
    /\ candidates' = [candidates EXCEPT ![r] = <<>>]
    /\ audio_path' = [audio_path EXCEPT ![r] = NoPath]
    /\ call' = [call EXCEPT ![r] = NoCall]
    /\ resp' = [resp EXCEPT ![r] = NoResp]
    /\ outcome' = [outcome EXCEPT ![r] = NoOutcome]
    /\ spawns' = [spawns EXCEPT ![r] = 0]
    /\ calls' = [calls EXCEPT ![r] = 0]
    /\ UNCHANGED <<health, apiKey, fs>>

(***************************************************************************)
(* One client: a request is sent when no other is being served.            *)
(***************************************************************************)
PostAlone(r, b) ==
    /\ \A q \in Reqs : pc[q] = "Idle"
    /\ Post(r, b)

Next ==
    \/ Health
    \/ HealthDelivered
    \/ \E v \in ApiKeys : SetEnv(v)
    \/ \E r \in Reqs, b \in Bodies : PostAlone(r, b)
    \/ \E r \in Reqs : Validate(r)
    \/ \E r \in Reqs : Spawn(r)
    \/ \E r \in Reqs, l \in Listings : DownloaderWrites(r, l)
    \/ \E r \in Reqs, res \in ProcResults : DownloaderExits(r, res)
    \/ \E r \in Reqs : DownloadTimeout(r)
    \/ \E r \in Reqs, order \in Orders : ResolveOutput(r, order)
    \/ \E r \in Reqs, e \in OpenErrors : OpenFails(r, e)
    \/ \E r \in Reqs : OpenAndSubmit(r)
    \/ \E r \in Reqs, e \in CallErrors : ProviderRaises(r, e)
    \/ \E r \in Reqs, rsp \in Responses : ProviderReturns(r, rsp)
    \/ \E r \in Reqs : Respond(r)

Spec == Init /\ [][Next]_vars

(***************************************************************************)
(* Concurrent clients: requests are served at the same time, their steps   *)
(* interleaved in any order. The inputs are fewer than for one client.     *)
(***************************************************************************)
ConcBodies == {[videoUrl |-> Some(<<"u">>), url |-> None]}

\* one good file; a good and a too-small file; a too-small file
ConcListings ==
    {[EmptyListing EXCEPT ![NameM4a] = RegularFile(MinAudioBytes)],
     [EmptyListing EXCEPT ![NameM4a] = RegularFile(MinAudioBytes),
                          ![NameWebm] = RegularFile(512)],
     [EmptyListing EXCEPT ![NameWebm] = RegularFile(512)]}

ConcResults ==
    {[rc |-> 0, stdout |-> <<>>, stderr |-> <<>>],
     [rc |-> 1, stdout |-> <<>>, stderr |-> Err(1)]}

ConcResponses ==
    {[has_text |-> TRUE, text |-> Some(Words(MinTranscriptLen, TRUE))],
     [has_text |-> TRUE, text |-> None]}

NextConc ==
    \/ \E r \in Reqs, b \in ConcBodies : Post(r, b)
    \/ \E r \in Reqs : Validate(r)
    \/ \E r \in Reqs : Spawn(r)
    \/ \E r \in Reqs, l \in ConcListings : DownloaderWrites(r, l)
    \/ \E r \in Reqs, res \in ConcResults : DownloaderExits(r, res)
    \/ \E r \in Reqs : DownloadTimeout(r)
    \/ \E r \in Reqs, order \in Orders : ResolveOutput(r, order)
    \/ \E r \in Reqs : OpenAndSubmit(r)
    \/ \E r \in Reqs, e \in CallErrors \ {<<>>} : ProviderRaises(r, e)
    \/ \E r \in Reqs, rsp \in ConcResponses : ProviderReturns(r, rsp)
    \/ \E r \in Reqs : Respond(r)

SpecConc == Init /\ [][NextConc]_vars

(***************************************************************************)
(* Progress. The handler's own steps are taken when they can be; the       *)
(* timeout of subprocess.run expires if the child is still running; the    *)
(* remote call returns or raises in the end. Nothing is assumed of the     *)
(* child process: it may write nothing and never exit.                     *)
(***************************************************************************)
Fairness ==
    \A r \in Reqs :
        /\ WF_vars(Validate(r))
        /\ WF_vars(Spawn(r))
        /\ WF_vars(DownloadTimeout(r))
        /\ WF_vars(\E order \in Orders : ResolveOutput(r, order))
        /\ WF_vars(OpenAndSubmit(r))
        /\ WF_vars(\/ \E e \in CallErrors \ {<<>>} : ProviderRaises(r, e)
                   \/ \E rsp \in ConcResponses : ProviderReturns(r, rsp))

\* one client, the inputs of the concurrent clients
NextLive ==
    \/ \E r \in Reqs, b \in ConcBodies : PostAlone(r, b)
    \/ \E r \in Reqs : Validate(r)
    \/ \E r \in Reqs : Spawn(r)
    \/ \E r \in Reqs, l \in ConcListings : DownloaderWrites(r, l)
    \/ \E r \in Reqs, res \in ConcResults : DownloaderExits(r, res)
    \/ \E r \in Reqs : DownloadTimeout(r)
    \/ \E r \in Reqs, order \in Orders : ResolveOutput(r, order)
    \/ \E r \in Reqs, e \in OpenErrors : OpenFails(r, e)
    \/ \E r \in Reqs : OpenAndSubmit(r)
    \/ \E r \in Reqs, e \in CallErrors \ {<<>>} : ProviderRaises(r, e)
    \/ \E r \in Reqs, rsp \in ConcResponses : ProviderReturns(r, rsp)
    \/ \E r \in Reqs : Respond(r)

SpecLive == Init /\ [][NextLive]_vars /\ Fairness

(***************************************************************************)
(* Properties.                                                             *)
(***************************************************************************)
Completed(r) == pc[r] \in {"Done", "Failed"}

\* C1: once a request that acquired a scratch directory has completed, with
\* the transcript or with any failure, its directory does not exist
C1_ScratchRemoved ==
    \A r \in Reqs : Completed(r) /\ td[r] # 0 => ~fs[td[r]].exists

\* a request that failed after its download was written has completed
C1_Witness ==
    \E r \in Reqs : /\ pc[r] = "Failed"
                    /\ td[r] # 0
                    /\ audio_path[r] # NoPath
                    /\ ~fs[td[r]].exists

\* the bound URL of r is blank or whitespace only
BlankUrl(r) ==
    /\ req[r].videoUrl.some
    /\ \A i \in DOMAIN req[r].videoUrl.val : req[r].videoUrl.val[i] \in Whitespace

\* C2 as stated: a blank or whitespace-only URL is answered 400 before any
\* download, whether or not the credential is set
C2_Original ==
    \A r \in Reqs : BlankUrl(r) /\ pc[r] # "Validating" =>
        /\ pc[r] = "Failed"
        /\ outcome[r].status = 400
        /\ spawns[r] = 0

\* C2 amended: a blank or whitespace-only URL fails before any download, no
\* scratch directory is made; the answer is 400 when the credential was set at
\* the call and 500 when it was not
C2_BlankUrlRejected ==
    \A r \in Reqs : BlankUrl(r) /\ pc[r] # "Validating" =>
        /\ pc[r] = "Failed"
        /\ td[r] = 0
        /\ spawns[r] = 0
        /\ calls[r] = 0
        /\ outcome[r].status = IF api_key[r].some /\ api_key[r].val # <<>> THEN 400 ELSE 500

\* a whitespace-only URL was answered 400
C2_Witness ==
    \E r \in Reqs : /\ BlankUrl(r)
                    /\ req[r].videoUrl.val # <<>>
                    /\ pc[r] = "Failed"
                    /\ outcome[r].status = 400

\* C3: a download that exceeds the timeout fails the request with 504; the
\* one child process is not followed by another and no remote call is made
C3_TimeoutFatal ==
    \A r \in Reqs : proc[r].state = "killed" =>
        /\ pc[r] = "Failed"
        /\ outcome[r].status = 504
        /\ spawns[r] = 1
        /\ calls[r] = 0
        /\ call[r].state = "none"

C3_Witness == \E r \in Reqs : proc[r].state = "killed" /\ pc[r] = "Failed"

\* r is at the step of run_yt_dlp that selects audio_path
Selects(r) == pc[r] = "Fetching" /\ audio_path[r] = NoPath /\ audio_path'[r] # NoPath

\* C4: when the selected file is smaller than 1024 bytes the request fails
\* with the too-small 502 and makes no remote call; a file handed to the
\* remote call has at least 1024 bytes
C4_TooSmallRejected ==
    [][\A r \in Reqs :
        /\ Selects(r) =>
            IF GetSize(audio_path'[r]) < MinAudioBytes
            THEN /\ pc'[r] = "Failed"
                 /\ outcome'[r].status = 502
                 /\ outcome'[r].detail = "yt-dlp produced an empty/too-small file: "
                 /\ calls'[r] = 0
            ELSE pc'[r] = "Transcribing"
        /\ calls'[r] > calls[r] =>
            /\ call'[r].file = audio_path[r]
            /\ call'[r].bytes = GetSize(audio_path[r])
            /\ call'[r].bytes >= MinAudioBytes]_vars

\* a file of 1023 bytes was selected and rejected
C4_Witness ==
    \E r \in Reqs : /\ pc[r] = "Failed"
                    /\ audio_path[r] # NoPath
                    /\ outcome[r].detail = "yt-dlp produced an empty/too-small file: "
                    /\ calls[r] = 0

\* the regular files of r's directory named audio.<extension>
AudioFiles(r) ==
    {n \in Names : /\ Len(n) > Len(AudioPrefix)
                   /\ \A i \in DOMAIN AudioPrefix : n[i] = AudioPrefix[i]
                   /\ fs[td[r]].files[n].kind = "file"}

DistinctSizes(r) ==
    \A m, n \in AudioFiles(r) : m # n => fs[td[r]].files[m].size # fs[td[r]].files[n].size

\* C5: after exit status 0, with one or more regular files audio.<ext> of
\* pairwise distinct sizes, the largest is selected, and the size test is
\* made on that file
C5_LargestSelected ==
    [][\A r \in Reqs :
        (/\ pc[r] = "Fetching" /\ pc'[r] # "Fetching"
         /\ proc[r].state = "exited" /\ proc[r].rc = 0
         /\ AudioFiles(r) # {} /\ DistinctSizes(r)) =>
            /\ audio_path'[r].dir = td[r]
            /\ audio_path'[r].name \in AudioFiles(r)
            /\ \A n \in AudioFiles(r) :
                  fs[td[r]].files[n].size <= fs[td[r]].files[audio_path'[r].name].size
            /\ (pc'[r] = "Failed") = (fs[td[r]].files[audio_path'[r].name].size < MinAudioBytes)
            /\ pc'[r] = "Failed" => outcome'[r].arg = audio_path'[r].name]_vars

\* two regular candidates of different sizes, the larger one selected
C5_Witness ==
    \E r \in Reqs : /\ pc[r] = "Transcribing"
                    /\ Cardinality(AudioFiles(r)) = 2
                    /\ DistinctSizes(r)
                    /\ Len(candidates[r]) = 2
                    /\ GetSize(audio_path[r]) > GetSize(candidates[r][2])

\* t is raw without the whitespace at its two ends
IsTrimOf(t, raw) ==
    /\ \E a, b \in 0..Len(raw) :
         /\ a + Len(t) + b = Len(raw)
         /\ \A i \in 1..a : raw[i] \in Whitespace
         /\ \A i \in (Len(raw) - b + 1)..Len(raw) : raw[i] \in Whitespace
         /\ \A i \in 1..Len(t) : t[i] = raw[a + i]
    /\ t # <<>> => t[1] \notin Whitespace /\ t[Len(t)] \notin Whitespace

\* the text the provider sent: "" when the attribute is missing or None
SentText(r) == IF resp[r].has_text /\ resp[r].text.some THEN resp[r].text.val ELSE <<>>

\* C6: a response whose text is missing, empty or shorter than 10 characters
\* once trimmed fails the request with the empty-transcript 502; every success
\* carries the provider's text trimmed, of 10 characters or more
C6_TranscriptTrimmed ==
    \A r \in Reqs :
        /\ call[r].state = "returned" =>
            \E t \in {SubSeq(SentText(r), i, j) : i \in 1..Len(SentText(r)) + 1,
                                                 j \in 0..Len(SentText(r))} :
                /\ IsTrimOf(t, SentText(r))
                /\ IF Len(t) < MinTranscriptLen
                   THEN /\ pc[r] = "Failed"
                        /\ outcome[r].status = 502
                        /\ outcome[r].detail = "empty transcript"
                   ELSE /\ pc[r] = "Done"
                        /\ outcome[r].status = 200
                        /\ outcome[r].transcript = t
        /\ pc[r] = "Done" =>
            /\ call[r].state = "returned"
            /\ outcome[r].status = 200
            /\ Len(outcome[r].transcript) >= MinTranscriptLen

\* a text of 10 characters between whitespace was returned as the transcript
C6_Witness ==
    \E r \in Reqs : /\ pc[r] = "Done"
                    /\ Len(outcome[r].transcript) = MinTranscriptLen
                    /\ Len(SentText(r)) > MinTranscriptLen

\* a text of 9 characters between whitespace, 10 or more before trimming,
\* was rejected
C6_WitnessShort ==
    \E r \in Reqs : /\ pc[r] = "Failed"
                    /\ outcome[r].detail = "empty transcript"
                    /\ Len(SentText(r)) >= MinTranscriptLen

\* a is the last Len(a) characters of s
IsSuffix(a, s) ==
    /\ Len(a) <= Len(s)
    /\ \A i \in 1..Len(a) : a[i] = s[Len(s) - Len(a) + i]

\* the stream the diagnostic is taken from
Diagnosed(r) == IF proc[r].stderr # <<>> THEN proc[r].stderr ELSE proc[r].stdout

\* C7: a non-zero exit status fails the request with the tool-failed 502; the
\* diagnostic is the last 1500 characters (all, when there are fewer) of the
\* error stream, of standard output when the error stream is empty; no output
\* file is looked at and no remote call made
C7_ToolFailedTail ==
    \A r \in Reqs : proc[r].state = "exited" /\ proc[r].rc # 0 /\ pc[r] # "Fetching" =>
        /\ pc[r] = "Failed"
        /\ outcome[r].status = 502
        /\ outcome[r].detail = "yt-dlp failed:\n"
        /\ IsSuffix(outcome[r].arg, Diagnosed(r))
        /\ Len(outcome[r].arg) <= TailLen
        /\ Len(outcome[r].arg) = TailLen \/ outcome[r].arg = Diagnosed(r)
        /\ candidates[r] = <<>>
        /\ audio_path[r] = NoPath
        /\ calls[r] = 0

\* an error stream longer than the tail was cut
C7_Witness ==
    \E r \in Reqs : /\ pc[r] = "Failed"
                    /\ proc[r].state = "exited" /\ proc[r].rc # 0
                    /\ Len(proc[r].stderr) > TailLen
                    /\ Len(outcome[r].arg) = TailLen

\* standard output was used, the error stream being empty
C7_WitnessStdout ==
    \E r \in Reqs : /\ pc[r] = "Failed"
                    /\ proc[r].state = "exited" /\ proc[r].rc # 0
                    /\ proc[r].stderr = <<>>
                    /\ outcome[r].arg # <<>>

\* C8: a failure raised by open() or by the remote call is answered 502 with
\* str(e) in the detail, never passed on as it is, and the scratch directory
\* is removed
C8_ProviderFailureWrapped ==
    \A r \in Reqs : call[r].state = "raised" =>
        /\ pc[r] = "Failed"
        /\ outcome[r].status = 502
        /\ outcome[r].detail = "OpenAI Whisper failed: "
        /\ outcome[r].arg = call[r].error
        /\ td[r] # 0
        /\ ~fs[td[r]].exists

\* the remote call raised
C8_Witness ==
    \E r \in Reqs : call[r].state = "raised" /\ calls[r] = 1 /\ call[r].error # <<>>

\* open() raised
C8_WitnessOpen == \E r \in Reqs : call[r].state = "raised" /\ calls[r] = 0

\* the body of r carried the URL under the field url and not under videoUrl
AliasOnly(r) == sent[r].url /\ ~sent[r].videoUrl

\* C9 as stated: a request with the URL under the field url alone is taken
\* like one with videoUrl, the pipeline runs
C9_Original ==
    \A r \in Reqs : AliasOnly(r) => pc[r] # "Rejected" /\ outcome[r].status # 422

\* C9 amended: the URL is read from the field videoUrl alone; a request with
\* the URL under url alone is answered 422 when it is bound and nothing of the
\* pipeline runs
C9_AliasRejected ==
    \A r \in Reqs : AliasOnly(r) =>
        /\ pc[r] = "Rejected"
        /\ outcome[r].status = 422
        /\ td[r] = 0
        /\ spawns[r] = 0
        /\ calls[r] = 0

C9_Witness == \E r \in Reqs : AliasOnly(r) /\ pc[r] = "Rejected"

\* a request with the URL under videoUrl succeeded
C9_WitnessPrimary == \E r \in Reqs : sent[r].videoUrl /\ pc[r] = "Done"

\* C10: with the credential not set when the handler looks it up, the request
\* is answered 500 and no scratch directory, child process or remote call is
\* made; with it set at that moment, the request is not answered 500, whatever
\* the credential was before
C10_MissingCredential ==
    [][\A r \in Reqs :
        /\ pc[r] = "Validating" /\ pc'[r] # "Validating" =>
            IF apiKey.some /\ apiKey.val # <<>>
            THEN outcome'[r].status # 500
            ELSE /\ pc'[r] = "Failed"
                 /\ outcome'[r].status = 500
                 /\ fs' = fs
        /\ outcome'[r].status = 500 =>
            /\ pc'[r] = "Failed"
            /\ td'[r] = 0
            /\ spawns'[r] = 0
            /\ calls'[r] = 0]_vars

\* after a request was answered 500, a later one passed the credential check
C10_Witness == missed /\ \E r \in Reqs : pc[r] = "Fetching"

\* a request with a URL was answered 500
C10_Witness500 ==
    \E r \in Reqs : outcome[r].status = 500 /\ ~BlankUrl(r) /\ sent[r].videoUrl

\* C11: GET /health is answered {"ok": true} in every state, with the
\* credential set or not and with requests at any stage, and changes nothing
\* else: no scratch directory, no child process, no remote call, no request
C11_HealthStatic ==
    [][~health.answered /\ health'.answered =>
        /\ health'.ok
        /\ UNCHANGED <<apiKey, fs, missed, sent, pc, req, api_key, video_url, td,
                       proc, candidates, audio_path, call, resp, outcome, spawns,
                       calls>>]_vars

\* a health answer with the credential not set and a remote call in flight
C11_Witness ==
    /\ health.answered
    /\ health.ok
    /\ ~apiKey.some
    /\ \E r \in Reqs : call[r].state = "inflight" /\ fs[td[r]].exists

\* the moves of a request from stage to stage
StageMoves ==
    {<<"Idle", "Validating">>, <<"Validating", "Fetching">>,
     <<"Fetching", "Transcribing">>, <<"Transcribing", "Done">>,
     <<"Validating", "Failed">>, <<"Fetching", "Failed">>, <<"Transcribing", "Failed">>}

\* a request the framework refused before the handler, and the slot of an
\* answered request given to the next one
SlotMoves ==
    {<<"Idle", "Rejected">>, <<"Rejected", "Idle">>, <<"Done", "Idle">>, <<"Failed", "Idle">>}

\* C12: a request goes Idle, Validating, Fetching, Transcribing, Done in this
\* order; Failed is entered from Validating, Fetching or Transcribing only; no
\* stage is entered again, Done and Failed are left by no step of the request
\* (its slot is only handed over, emptied, once the response is delivered);
\* the remote call is not started before run_yt_dlp has returned a regular
\* file of 1024 bytes or more
C12_StageOrder ==
    [][\A r \in Reqs :
        /\ pc'[r] # pc[r] => <<pc[r], pc'[r]>> \in StageMoves \cup SlotMoves
        /\ pc[r] \in {"Done", "Failed"} =>
            \/ pc'[r] = pc[r] /\ outcome'[r] = outcome[r] /\ spawns'[r] = spawns[r]
                              /\ calls'[r] = calls[r] /\ call'[r] = call[r]
            \/ /\ pc'[r] = "Idle" /\ outcome'[r] = NoOutcome /\ td'[r] = 0
               /\ spawns'[r] = 0 /\ calls'[r] = 0 /\ call'[r].state = "none"
               /\ proc'[r].state = "none"
        /\ (outcome'[r] # NoOutcome) = (pc'[r] \in {"Done", "Failed", "Rejected"})
        /\ (pc'[r] = "Done") = (outcome'[r].status = 200)
        /\ calls'[r] > calls[r] =>
            /\ pc[r] = "Transcribing" /\ pc'[r] = "Transcribing"
            /\ proc[r].state = "exited" /\ proc[r].rc = 0
            /\ audio_path[r] # NoPath
            /\ fs[audio_path[r].dir].exists
            /\ fs[audio_path[r].dir].files[audio_path[r].name].kind = "file"
            /\ fs[audio_path[r].dir].files[audio_path[r].name].size >= MinAudioBytes
        /\ pc'[r] = "Transcribing" => proc'[r].state = "exited" /\ audio_path'[r] # NoPath
        /\ pc'[r] \in {"Idle", "Validating", "Rejected"} => spawns'[r] = 0 /\ calls'[r] = 0
        /\ pc'[r] = "Fetching" => calls'[r] = 0]_vars

\* a request has gone through every stage to Done
C12_Witness ==
    \E r \in Reqs : /\ pc[r] = "Done"
                    /\ spawns[r] = 1 /\ calls[r] = 1
                    /\ proc[r].state = "exited" /\ call[r].state = "returned"

\* C13: a request starts one child process at most and makes one remote call
\* at most, whatever fails: the counts are those of the one download and the
\* one call of its path
C13_SingleAttempt ==
    \A r \in Reqs :
        /\ spawns[r] <= 1
        /\ calls[r] <= 1
        /\ (spawns[r] = 1) = (proc[r].state # "none")
        /\ (calls[r] = 1) = (call[r].state \in {"inflight", "returned"}
                              \/ (call[r].state = "raised" /\ pc[r] = "Failed"
                                  /\ call[r].file # NoPath))
        /\ calls[r] = 1 => spawns[r] = 1 /\ proc[r].state = "exited" /\ proc[r].rc = 0
        /\ pc[r] = "Failed" /\ td[r] # 0 => spawns[r] = 1

\* the download failed, and was not started again
C13_Witness ==
    \E r \in Reqs : /\ pc[r] = "Failed"
                    /\ proc[r].state = "exited" /\ proc[r].rc # 0
                    /\ spawns[r] = 1 /\ calls[r] = 0

\* the remote call failed, and neither stage was started again
C13_WitnessCall ==
    \E r \in Reqs : /\ pc[r] = "Failed"
                    /\ call[r].state = "raised"
                    /\ spawns[r] = 1 /\ calls[r] = 1

\* C14: after exit status 0, with no regular file audio.<ext> in the scratch
\* directory (nothing there, other names only, or directories only), the
\* request fails with the no-output 502, selects no file and makes no remote
\* call
C14_NoOutputRejected ==
    [][\A r \in Reqs :
        /\ (/\ pc[r] = "Fetching" /\ pc'[r] # "Fetching"
            /\ proc[r].state = "exited" /\ proc[r].rc = 0
            /\ AudioFiles(r) = {}) =>
                /\ pc'[r] = "Failed"
                /\ outcome'[r].status = 502
                /\ outcome'[r].detail = "yt-dlp reported success but no audio file was created"
                /\ candidates'[r] = <<>>
                /\ audio_path'[r] = NoPath
                /\ calls'[r] = 0
                /\ call'[r].state = "none"
        /\ (/\ pc[r] = "Fetching" /\ pc'[r] # "Fetching"
            /\ outcome'[r].detail = "yt-dlp reported success but no audio file was created") =>
                /\ proc[r].rc = 0
                /\ AudioFiles(r) = {}]_vars

\* a download that exited 0 was answered with the no-output 502
C14_Witness ==
    \E r \in Reqs : /\ pc[r] = "Failed"
                    /\ proc[r].state = "exited" /\ proc[r].rc = 0
                    /\ outcome[r].detail = "yt-dlp reported success but no audio file was created"
                    /\ candidates[r] = <<>>
                    /\ calls[r] = 0

\* a download has exited 0 leaving a directory named audio.<ext> and the file
\* audio, and no regular file audio.<ext>
C14_DirectoriesOnly ==
    \E r \in Reqs : /\ pc[r] = "Fetching"
                    /\ proc[r].state = "exited" /\ proc[r].rc = 0
                    /\ AudioFiles(r) = {}
                    /\ fs[td[r]].files[NameM4a].kind = "dir"
                    /\ fs[td[r]].files[NameBare].kind = "file"

\* what belongs to request r alone
Own(r) ==
    <<sent[r], pc[r], req[r], api_key[r], video_url[r], td[r], proc[r], candidates[r],
      audio_path[r], call[r], resp[r], outcome[r], spawns[r], calls[r]>>

\* the response r's own download and remote call lead to, for a request that
\* got its scratch directory
OwnOutcome(r) ==
    IF proc[r].state = "killed" THEN [status |-> 504, transcript |-> <<>>]
    ELSE IF proc[r].rc # 0 \/ candidates[r] = <<>> THEN [status |-> 502, transcript |-> <<>>]
    ELSE IF call[r].state \in {"none", "raised"} THEN [status |-> 502, transcript |-> <<>>]
    ELSE IF Len(Strip(SentText(r))) < MinTranscriptLen THEN [status |-> 502, transcript |-> <<>>]
    ELSE [status |-> 200, transcript |-> Strip(SentText(r))]

\* C15: with requests served at the same time in any interleaving, the scratch
\* directories of two requests differ; a request's child process, candidates,
\* selected file and uploaded file are in its own directory; a directory
\* changes only by a step of the request that holds it, and that step changes
\* nothing of another request or directory, so the directory and the selected
\* file of a request in flight stay as they are while others finish; the
\* response of a request is the one its own download and remote call lead to
C15_Isolation ==
    [][/\ \A r, q \in Reqs : r # q /\ td'[r] # 0 => td'[r] # td'[q]
       /\ \A r \in Reqs :
            /\ proc'[r].state # "none" => proc'[r].outdir = td'[r]
            /\ \A i \in DOMAIN candidates'[r] : candidates'[r][i].dir = td'[r]
            /\ audio_path'[r] # NoPath => audio_path'[r].dir = td'[r]
            /\ call'[r].file # NoPath => call'[r].file = audio_path'[r]
            /\ pc'[r] \in {"Fetching", "Transcribing"} => td'[r] # 0 /\ fs'[td'[r]].exists
            /\ pc'[r] = "Transcribing" =>
                /\ fs'[td'[r]].files[audio_path'[r].name].kind = "file"
                /\ fs'[td'[r]].files[audio_path'[r].name].size >= MinAudioBytes
            /\ pc'[r] \in {"Done", "Failed"} /\ td'[r] # 0 =>
                /\ outcome'[r].status = OwnOutcome(r)'.status
                /\ outcome'[r].transcript = OwnOutcome(r)'.transcript
            /\ Own(r)' # Own(r) => \A q \in Reqs \ {r} : Own(q)' = Own(q)
       /\ \A n \in TmpNames : fs'[n] # fs[n] =>
            /\ \A m \in TmpNames \ {n} : fs'[m] = fs[m]
            /\ \E r \in Reqs :
                /\ td[r] = n \/ td'[r] = n
                /\ \A q \in Reqs \ {r} : Own(q)' = Own(q) /\ td[q] # n
                /\ Own(r)' # Own(r) \/ (proc[r].state = "running" /\ proc[r].outdir = n)]_vars

\* one request is done and its directory removed while the remote call of
\* another is in flight on the file in its own directory
C15_Witness ==
    \E r, q \in Reqs :
        /\ r # q
        /\ pc[r] = "Done" /\ ~fs[td[r]].exists
        /\ pc[q] = "Transcribing" /\ call[q].state = "inflight"
        /\ td[q] # td[r]
        /\ fs[td[q]].exists
        /\ fs[td[q]].files[audio_path[q].name].kind = "file"

\* C16: a request that has entered the handler reaches Done or Failed, given
\* that the remote call returns or raises in the end; a child process that
\* never exits is ended by the timeout, which fails the request
C16_Terminates ==
    \A r \in Reqs :
        (pc[r] \in {"Validating", "Fetching", "Transcribing"}) ~> (pc[r] \in {"Done", "Failed"})

\* the timeout has ended a child process and failed the request
C16_Witness ==
    \E r \in Reqs : /\ pc[r] = "Failed"
                    /\ proc[r].state = "killed"
                    /\ outcome[r].status = 504

\* the status each detail goes with
StatusOf(detail) ==
    CASE detail = "OPENAI_API_KEY is not set" -> 500
      [] detail = "videoUrl is required" -> 400
      [] detail = "yt-dlp timed out" -> 504
      [] detail = "" -> 200
      [] OTHER -> 502

\* r's step ends its request
Ends(r) == pc[r] \in {"Validating", "Fetching", "Transcribing"} /\ pc'[r] \in {"Done", "Failed"}

\* the detail the first failing check gives, the checks taken in the order
\* credential, URL, timeout, exit status, output present, output size,
\* provider call, transcript length; "" when none fails
FirstFailure(r) ==
    IF pc[r] = "Validating"
    THEN IF ~(apiKey.some /\ apiKey.val # <<>>) THEN "OPENAI_API_KEY is not set"
         ELSE "videoUrl is required"
    ELSE IF pc[r] = "Fetching"
    THEN IF proc[r].state = "running" THEN "yt-dlp timed out"
         ELSE IF proc[r].rc # 0 THEN "yt-dlp failed:\n"
         ELSE IF AudioFiles(r) = {}
              THEN "yt-dlp reported success but no audio file was created"
         ELSE "yt-dlp produced an empty/too-small file: "
    ELSE IF call'[r].state = "raised" THEN "OpenAI Whisper failed: "
         ELSE IF Len(outcome'[r].transcript) < MinTranscriptLen THEN "empty transcript"
         ELSE ""

C17_ExitStatusBeforeOutput ==
    \E r \in Reqs : /\ pc[r] = "Fetching"
                    /\ proc[r].state = "exited" /\ proc[r].rc # 0
                    /\ \E n \in AudioFiles(r) : fs[td[r]].files[n].size >= MinAudioBytes

\* r holds a scratch directory that exists
HasDir(r) == td[r] # 0 /\ fs[td[r]].exists

\* C18: a request has a scratch directory exactly while it is in Fetching or
\* Transcribing, and every directory that exists is the one of such a
\* request; the directory is made once, on passing validation, and is the
\* same until the request ends; a request that fails in Validating makes
\* none; the file handed to the remote call is, at that moment, a regular
\* file in the request's own directory
C18_ScratchLifetime ==
    [][/\ \A r \in Reqs :
            /\ HasDir(r)' = (pc'[r] \in {"Fetching", "Transcribing"})
            /\ pc[r] = "Validating" /\ pc'[r] = "Fetching" =>
                /\ td[r] = 0
                /\ ~fs[td'[r]].exists
                /\ fs'[td'[r]] = EmptyDir
                /\ \A n \in TmpNames \ {td'[r]} : fs'[n] = fs[n]
            /\ pc[r] = "Validating" /\ pc'[r] = "Failed" => td'[r] = 0 /\ fs' = fs
            /\ pc[r] \in {"Fetching", "Transcribing"} => td'[r] = td[r]
            /\ pc'[r] \in {"Idle", "Validating", "Rejected"} => td'[r] = 0
            /\ calls'[r] > calls[r] =>
                /\ call'[r].file.dir = td[r]
                /\ fs[td[r]].exists /\ fs'[td[r]].exists
                /\ fs[td[r]].files[call'[r].file.name].kind = "file"
                /\ fs'[td[r]] = fs[td[r]]
       /\ \A n \in TmpNames :
            /\ fs'[n].exists =>
                \E r \in Reqs : td'[r] = n /\ pc'[r] \in {"Fetching", "Transcribing"}
            /\ ~fs[n].exists /\ fs'[n].exists =>
                \E r \in Reqs : pc[r] = "Validating" /\ pc'[r] = "Fetching" /\ td'[r] = n]_vars

\* the remote call of a request is in flight on a regular file of its
\* directory, which holds another entry too
C18_Witness ==
    \E r \in Reqs :
        /\ pc[r] = "Transcribing" /\ call[r].state = "inflight"
        /\ HasDir(r)
        /\ call[r].file.dir = td[r]
        /\ fs[td[r]].files[call[r].file.name].kind = "file"
        /\ \E n \in Names \ {call[r].file.name} : fs[td[r]].files[n].kind # "absent"

\* a request failed in Validating and no directory exists
C18_WitnessValidating ==
    \E r \in Reqs : /\ pc[r] = "Failed" /\ td[r] = 0
                    /\ \A n \in TmpNames : ~fs[n].exists

====
